---- MODULE Spec2Model ----
(***************************************************************************)
(* Auto-publish pipeline of square_publisher: the ingestion route, the     *)
(* scheduler entry point, the moderation adapter, the two-phase background *)
(* worker and the admin publish/unpublish routes, over the posts table.    *)
(*                                                                         *)
(* Time is a clock in hours.  Timestamps are clock values; SQL NULL is     *)
(* NULL for timestamps and NULLTEXT for text columns.  toISOString() is    *)
(* exact to the millisecond and ISO strings of one format compare like the *)
(* instants they denote, so a stored timestamp is the clock value itself.  *)
(***************************************************************************)
EXTENDS Integers, Sequences, FiniteSets, TLC

\* ---------------------------------------------------------------- bounds
MaxPosts == 1      \* posts ingested in one run
MaxTicks == 2      \* worker ticks that may be in flight at once
MaxTime == 7       \* last clock value
ClockStep == 6     \* hours the clock advances in one step
MaxBacklog == 10   \* approved, overdue drafts the process may restart with
MaxPending == 1    \* unmoderated, overdue drafts it may restart with
MaxBatch == 2      \* unmoderated drafts waiting when the worker starts
MaxScheduled == 3  \* rows of the table the scheduler is applied to on its own
MaxOverdue == 6    \* approved, overdue drafts next to a full moderation batch
MaxEdits == 1      \* times the text of one post is replaced
MaxFeedPosts == 2  \* posts in the table while the feed is read

\* ------------------------------------------------------ program constants
NULL == 0                 \* SQL NULL of a DATETIME column
StartTime == 1            \* clock value at process start
ModerationLimit == 5      \* LIMIT of the phase-1 select
PublishLimit == 10        \* LIMIT of the phase-2 select
IngestDelayHours == 6     \* delay the ingestion route passes to the scheduler
FeedSize == 50            \* default of config.rss.feedSize

NULLTEXT == "<NULL>"      \* SQL NULL of a TEXT column / a missing client_key

RegisteredKeys == {"u1"}                    \* client_keys that own a user row
IngestKeys == {NULLTEXT, "u1", "ghost"}     \* client_key values of requests

\* The fastify instances startAutoPublishWorker may be given: one that carries
\* the rssInvalidate decorator and one that does not (a decorator added inside
\* an encapsulated plugin is not visible on the root instance).
NoFastify == "null"
Fastifies == {"decorated", "plain"}
HasHook(f) == f = "decorated"

VARIABLES
    posts,            \* the posts table: sequence of rows, id = index
    users,            \* users by client_key: [email, auto_publish_enabled]
    now,              \* the clock
    apiKey,           \* config.openai.apiKey is set
    emailConfigured,  \* config.email.host and .user are set (getTransporter)
    workerInterval,   \* module variable: TRUE iff it holds an interval handle
    fastifyInstance,  \* module variable: the fastify instance, or NoFastify
    timers,           \* number of live setInterval timers
    ticks,            \* workerTick invocations in flight, by slot
    hist,             \* per post: what the worker and the admin did to it
    sweep,            \* what the worker did in the last step: the tick that
                      \* ended, or the start call that was refused
    mail,             \* the sendModerationRejectionEmail call of the last step
    verdict,          \* the moderation call that settled in the last step
    response,         \* the response the ingestion route sent in the last step
    cache,            \* the cache object of the RSS builder
    feed              \* what the last step did with the feed: the response
                      \* of GET /rss.xml, or a route's call of the hook

vars == <<posts, users, now, apiKey, emailConfigured, workerInterval,
          fastifyInstance, timers, ticks, hist, sweep, mail, verdict,
          response, cache, feed>>

TickIds == 1..MaxTicks
PostIds == DOMAIN posts

IdleTick == [pc |-> "idle", batch |-> <<>>, texts |-> <<>>, i |-> 0, outcomes |-> <<>>,
             hook |-> FALSE]
NoSweep == [ran |-> FALSE, threw |-> FALSE, refused |-> NoFastify, slot |-> 0, hook |-> FALSE,
            now |-> NULL, batch |-> <<>>, outcomes |-> <<>>,
            eligible |-> {}, selected |-> {}, invalidated |-> 0, log |-> <<>>]
NoResponse == [sent |-> FALSE, client_key |-> NULLTEXT, id |-> 0, status |-> NULLTEXT,
               auto_publish_scheduled |-> FALSE, publish_at |-> NULL]
NoHist == [modCalls |-> 0, checkedWrites |-> 0, notified |-> 0]
NoMail == [called |-> FALSE, returned |-> FALSE, sent |-> FALSE, postId |-> 0, reason |-> ""]
NoVerdict == [settled |-> FALSE]
NoCache == [built |-> FALSE, xml |-> <<>>, lastModified |-> NULL, builtAt |-> NULL]
NoFeed == [served |-> FALSE, threw |-> FALSE, invalidated |-> FALSE, status |-> "",
           xml |-> <<>>, readStore |-> FALSE]

\* The row INSERTed by POST /ingest/text: the columns the worker and the
\* publish routes decide on, at their schema defaults.
NewPost ==
    [status |-> "draft", publish_at |-> NULL, moderation_checked_at |-> NULL,
     moderation_reason |-> NULLTEXT, pub_date |-> NULL, updated_at |-> now,
     text |-> 0]

\* getUserByClientKey: the user row with that client_key, or none.
UserExists(key) == key \in DOMAIN users
getUserByClientKey(key) ==
    IF UserExists(key) THEN users[key]
    ELSE [email |-> NULLTEXT, auto_publish_enabled |-> FALSE]

Init ==
    /\ posts = <<>>
    /\ users = [k \in RegisteredKeys |->
                 [email |-> "u1@example.org", auto_publish_enabled |-> FALSE]]
    /\ now = StartTime
    /\ apiKey \in BOOLEAN
    /\ emailConfigured \in BOOLEAN
    /\ workerInterval = FALSE
    /\ fastifyInstance = NoFastify
    /\ timers = 0
    /\ ticks = [t \in TickIds |-> IdleTick]
    /\ hist = <<>>
    /\ sweep = NoSweep
    /\ mail = NoMail
    /\ verdict = NoVerdict
    /\ response = NoResponse
    /\ cache = NoCache
    /\ feed = NoFeed


\* ------------------------------------------------------ moderation adapter
\* JavaScript values of the fields read from the parsed model output.
JsUndefined == [t |-> "undefined", b |-> FALSE, s |-> ""]
JsBool(b) == [t |-> "boolean", b |-> b, s |-> ""]
JsStr(s) == [t |-> "string", b |-> FALSE, s |-> s]

\* Boolean(v), and the truthiness test of v || w
ToBoolean(v) ==
    CASE v.t = "undefined" -> FALSE
      [] v.t = "boolean" -> v.b
      [] v.t = "string" -> v.s # ""

\* The text the model returns, by what JSON.parse makes of the span the
\* adapter extracts from it: parses = FALSE when JSON.parse throws, otherwise
\* the parsed object's is_approved and reason (JsUndefined when absent).
Content(raw, parses, is_approved, reason) ==
    [raw |-> raw, parses |-> parses, is_approved |-> is_approved, reason |-> reason]

Contents ==
    { Content("{\"is_approved\":true,\"reason\":\"ok\"}", TRUE, JsBool(TRUE), JsStr("ok")),
      Content("{\"is_approved\":true}", TRUE, JsBool(TRUE), JsUndefined),
      Content("{\"is_approved\":false,\"reason\":\"off-topic\"}", TRUE, JsBool(FALSE), JsStr("off-topic")),
      Content("{\"is_approved\":false}", TRUE, JsBool(FALSE), JsUndefined),
      Content("sorry, cannot process", FALSE, JsUndefined, JsUndefined),
      Content("{\"verdict\":\"fine\"}", TRUE, JsUndefined, JsUndefined) }

\* What the chat-completions call gives back: a rejected fetch, a non-2xx
\* response, or a 2xx response carrying the model's text.
Responses ==
    { [kind |-> "network", message |-> "fetch failed", content |-> Content("", FALSE, JsUndefined, JsUndefined)],
      [kind |-> "http", message |-> "OpenAI API error: Too Many Requests", content |-> Content("", FALSE, JsUndefined, JsUndefined)] }
    \cup { [kind |-> "ok", message |-> "", content |-> c] : c \in Contents }

Verdict(is_approved, reason) ==
    [threw |-> FALSE, message |-> "", is_approved |-> is_approved, reason |-> reason]
Thrown(message) ==
    [threw |-> TRUE, message |-> message, is_approved |-> FALSE, reason |-> ""]

InvalidJsonReason == "Invalid JSON response from moderation LLM"

\* The try/catch around JSON.parse at the end of moderatePostContent.
ParseVerdict(content) ==
    IF content.parses
    THEN Verdict(ToBoolean(content.is_approved),
                 IF ToBoolean(content.reason) THEN content.reason.s ELSE "")
    ELSE Verdict(FALSE, InvalidJsonReason)

\* moderatePostContent with the API key set, once the fetch has settled.
moderatePostContent(resp) ==
    CASE resp.kind = "network" -> Thrown(resp.message)
      [] resp.kind = "http" -> Thrown(resp.message)
      [] resp.kind = "ok" -> ParseVerdict(resp.content)

\* moderatePostContent with no API key: it throws before any request.
MissingKey == Thrown("OPENAI_API_KEY is not configured")


\* ------------------------------------------------------- the RSS builder
\* The rows of the feed's select: the published posts.
PublishedPosts(ps) == { p \in DOMAIN ps : ps[p].status = "published" }

\* The sets of rows ORDER BY pub_date DESC LIMIT feedSize may keep.
FeedRows(ps) ==
    IF Cardinality(PublishedPosts(ps)) <= FeedSize
    THEN { PublishedPosts(ps) }
    ELSE { T \in SUBSET PublishedPosts(ps) :
             /\ Cardinality(T) = FeedSize
             /\ \A a \in T, b \in PublishedPosts(ps) \ T : ps[a].pub_date >= ps[b].pub_date }

\* The orders the select may return them in: pub_date descending.
FeedOrders(ps) ==
    UNION { { f \in [1..Cardinality(T) -> T] :
                /\ \A i, j \in 1..Cardinality(T) : i # j => f[i] # f[j]
                /\ \A i, j \in 1..Cardinality(T) :
                      i < j => ps[f[i]].pub_date >= ps[f[j]].pub_date } : T \in FeedRows(ps) }

\* The <item> built from a row.
FeedItem(ps, p) ==
    [id |-> p, text |-> ps[p].text,
     pubDate |-> IF ps[p].pub_date # NULL THEN ps[p].pub_date ELSE ps[p].updated_at]

\* buildFeed at time t: the caches it may leave.
buildFeed(ps, t) ==
    { [built |-> TRUE,
       xml |-> [i \in 1..Len(f) |-> FeedItem(ps, f[i])],
       lastModified |-> IF Len(f) > 0
                        THEN (IF ps[f[1]].pub_date # NULL THEN ps[f[1]].pub_date
                              ELSE ps[f[1]].updated_at)
                        ELSE t,
       builtAt |-> t] : f \in FeedOrders(ps) }

\* Variant of invalidate: the validators are cleared, the document is kept.
invalidateKeepingXml(c) == [c EXCEPT !.lastModified = NULL, !.builtAt = NULL]

invalidate(c) == NoCache

\* The hook as the publish sweep calls it: once per published row.
CacheAfterSweep(c, sw) == IF sw.invalidated > 0 THEN invalidate(c) ELSE c

\* GET /rss.xml: getCache(), then 304 when the request's validators match
\* the cache's, 200 with the document otherwise.  The store may throw in
\* buildFeed, which then leaves the cache as it was.
GetRss(notModified) ==
    /\ \/ /\ ~cache.built
          /\ cache' = cache
          /\ feed' = [NoFeed EXCEPT !.threw = TRUE, !.readStore = TRUE]
       \/ /\ ~cache.built
          /\ \E c \in buildFeed(posts, now) :
                /\ cache' = c
                /\ feed' = [served |-> TRUE, threw |-> FALSE, invalidated |-> FALSE,
                            status |-> IF notModified THEN "304" ELSE "200",
                            xml |-> c.xml, readStore |-> TRUE]
       \/ /\ cache.built
          /\ cache' = cache
          /\ feed' = [served |-> TRUE, threw |-> FALSE, invalidated |-> FALSE,
                      status |-> IF notModified THEN "304" ELSE "200",
                      xml |-> cache.xml, readStore |-> FALSE]
    /\ sweep' = NoSweep
    /\ mail' = NoMail
    /\ verdict' = NoVerdict
    /\ response' = NoResponse
    /\ UNCHANGED <<posts, users, now, apiKey, emailConfigured, workerInterval,
                   fastifyInstance, timers, ticks, hist>>

\* ------------------------------------------------------------ the worker
\* The orders in which a SELECT without ORDER BY may return the rows S.
Orderings(S) ==
    { f \in [1..Cardinality(S) -> S] : \A i, j \in 1..Cardinality(S) : i # j => f[i] # f[j] }

\* Variant of PendingModeration: the select joins the owner and skips the
\* posts of owners whose auto_publish_enabled is off.
PendingModerationOfEnabledOwners(ps) ==
    { p \in DOMAIN ps : /\ ps[p].publish_at # NULL
                        /\ ps[p].moderation_checked_at = NULL
                        /\ ps[p].status = "draft"
                        /\ \A k \in RegisteredKeys : users[k].auto_publish_enabled }

\* WHERE clause of the phase-1 select
PendingModeration(ps) ==
    { p \in DOMAIN ps : /\ ps[p].publish_at # NULL
                        /\ ps[p].moderation_checked_at = NULL
                        /\ ps[p].status = "draft" }

\* Variant of SelectPendingModeration: the select has no LIMIT.
SelectPendingModerationUnlimited(ps) == Orderings(PendingModeration(ps))

\* The batches the phase-1 select may return: LIMIT 5 of the pending rows.
SelectPendingModeration(ps) ==
    IF Cardinality(PendingModeration(ps)) <= ModerationLimit
    THEN Orderings(PendingModeration(ps))
    ELSE UNION { Orderings(S) : S \in { T \in SUBSET PendingModeration(ps) :
                   Cardinality(T) = ModerationLimit } }

\* Variant of PendingPublish: only rows checked before the sweep's now, so
\* a post approved by phase 1 waits for the next tick.
PendingPublishCheckedEarlier(ps, t) ==
    { p \in DOMAIN ps : /\ ps[p].status = "draft"
                        /\ ps[p].publish_at # NULL
                        /\ ps[p].publish_at <= t
                        /\ ps[p].moderation_checked_at # NULL
                        /\ ps[p].moderation_checked_at < t }

\* Variant of PendingPublish: the deadline test is lost.
PendingPublishIgnoringDeadline(ps, t) ==
    { p \in DOMAIN ps : /\ ps[p].status = "draft"
                        /\ ps[p].publish_at # NULL
                        /\ ps[p].moderation_checked_at # NULL }

\* WHERE clause of the phase-2 select
PendingPublish(ps, t) ==
    { p \in DOMAIN ps : /\ ps[p].status = "draft"
                        /\ ps[p].publish_at # NULL
                        /\ ps[p].publish_at <= t
                        /\ ps[p].moderation_checked_at # NULL }

\* Variant of SelectPendingPublish: rows are returned before they are due.
SelectPendingPublishIgnoringDeadline(ps, t) ==
    { PendingPublishIgnoringDeadline(ps, t) }

\* The row sets the phase-2 select may return: LIMIT 10 of the eligible rows.
SelectPendingPublish(ps, t) ==
    IF Cardinality(PendingPublish(ps, t)) <= PublishLimit
    THEN { PendingPublish(ps, t) }
    ELSE { T \in SUBSET PendingPublish(ps, t) : Cardinality(T) = PublishLimit }

\* Variant of ApprovedRow: the approval UPDATE also publishes the row.
ApprovedRowPublishing(row, t, reason) ==
    [row EXCEPT !.status = "published", !.pub_date = t,
                !.moderation_checked_at = t,
                !.moderation_reason = IF reason # "" THEN reason ELSE "Approved"]

\* The three UPDATEs of processPendingModeration
ApprovedRow(row, t, reason) ==
    [row EXCEPT !.moderation_checked_at = t,
                !.moderation_reason = IF reason # "" THEN reason ELSE "Approved"]
\* Variant of RejectedRow: the schedule is not cancelled.
RejectedRowKeepingDeadline(row, t, reason) ==
    [row EXCEPT !.status = "warning", !.moderation_checked_at = t,
                !.moderation_reason = reason]

RejectedRow(row, t, reason) ==
    [row EXCEPT !.status = "warning", !.moderation_checked_at = t,
                !.moderation_reason = reason, !.publish_at = NULL]
ErrorRow(row, t, message) ==
    [row EXCEPT !.moderation_checked_at = t,
                !.moderation_reason = "Moderation error: " \o message]

\* Variant of PublishedRow: pub_date = ? without the COALESCE.
PublishedRowOverwritingPubDate(row, t) ==
    [row EXCEPT !.status = "published", !.pub_date = t, !.updated_at = t]

\* The UPDATE of processScheduledPublishing
PublishedRow(row, t) ==
    [row EXCEPT !.status = "published",
                !.pub_date = IF row.pub_date # NULL THEN row.pub_date ELSE t,
                !.updated_at = t]

OutcomeKind(v) == IF v.threw THEN "error" ELSE IF v.is_approved THEN "approved" ELSE "rejected"

\* What the loop body did for one post: the branch taken and the row's
\* status and deadline as its UPDATE left them.
Outcome(row, v) ==
    [kind |-> OutcomeKind(v), status |-> row.status, publish_at |-> row.publish_at]

\* Body of the for loop of processPendingModeration for post p with the
\* adapter's result v, up to (not including) the await on the notification.
ModeratedPosts(ps, p, v) ==
    [ps EXCEPT ![p] = CASE v.threw -> ErrorRow(ps[p], now, v.message)
                        [] ~v.threw /\ v.is_approved -> ApprovedRow(ps[p], now, v.reason)
                        [] ~v.threw /\ ~v.is_approved -> RejectedRow(ps[p], now, v.reason)]

\* sendModerationRejectionEmail is called on a rejection only.
Notifies(v) == ~v.threw /\ ~v.is_approved

ModeratedHist(h, p, v) ==
    [h EXCEPT ![p] = [@ EXCEPT !.checkedWrites = @ + 1,
                               !.notified = IF Notifies(v) THEN @ + 1 ELSE @]]

\* The arguments of the sendModerationRejectionEmail call, if v leads to one.
MailFor(p, v) ==
    IF Notifies(v)
    THEN [called |-> TRUE, returned |-> ~emailConfigured, sent |-> FALSE,
          postId |-> p, reason |-> v.reason]
    ELSE NoMail

\* Variant of NotifiedPosts: a notification that is not sent throws into
\* the catch block of the loop, which records it as a moderation error.
NotifiedPostsRecordingFailure(ps, p, sent) ==
    IF sent THEN ps ELSE [ps EXCEPT ![p] = ErrorRow(ps[p], now, "notification failed")]

\* The table once sendModerationRejectionEmail has settled with sent: the
\* call resolves to a boolean in every case and the loop body drops it.
NotifiedPosts(ps, p, sent) == ps

CalledHist(h, p) == [h EXCEPT ![p].modCalls = @ + 1]


Range(f) == { f[i] : i \in DOMAIN f }

\* What phase 2 saw of a row it selected.
Snapshot(ps, h, p) ==
    [id |-> p, status |-> ps[p].status, publish_at |-> ps[p].publish_at,
     moderation_checked_at |-> ps[p].moderation_checked_at,
     moderation_reason |-> ps[p].moderation_reason,
     pub_date |-> ps[p].pub_date, notified |-> h[p].notified]

\* The calls of the for loop of processScheduledPublishing over the rows
\* sel, in order: the UPDATE of a row, then the hook if fi carries one.
RECURSIVE PublishLog(_, _)
PublishLog(sel, fi) ==
    IF sel = {} THEN <<>>
    ELSE LET p == CHOOSE x \in sel : \A y \in sel : x <= y
         IN <<[op |-> "publish", id |-> p]>>
            \o (IF fi # NoFastify /\ HasHook(fi)
                THEN <<[op |-> "invalidate", id |-> p]>> ELSE <<>>)
            \o PublishLog(sel \ {p}, fi)

\* processScheduledPublishing on the table ps, ending the tick in slot t
\* whose phase 1 moderated batch with outcomes outs; fi is fastifyInstance,
\* hook tells whether the instance the tick started with carried the hook.
processScheduledPublishing(t, ps, h, batch, outs, fi, hook) ==
    \E sel \in SelectPendingPublish(ps, now) :
        /\ posts' = [p \in DOMAIN ps |->
                       IF p \in sel THEN PublishedRow(ps[p], now) ELSE ps[p]]
        /\ hist' = h
        /\ sweep' = [ran |-> TRUE, threw |-> FALSE, refused |-> NoFastify,
                     slot |-> t, hook |-> hook,
                     now |-> now, batch |-> batch, outcomes |-> outs,
                     eligible |-> PendingPublish(ps, now),
                     selected |-> { Snapshot(ps, h, p) : p \in sel },
                     invalidated |-> IF fi # NoFastify /\ HasHook(fi)
                                     THEN Cardinality(sel) ELSE 0,
                     log |-> PublishLog(sel, fi)]
        /\ ticks' = [ticks EXCEPT ![t] = IdleTick]

\* Variant of Continue: an adapter exception ends the tick, as it would
\* without the try/catch inside the loop.
ContinueAbortingOnError(t, ps, h, outs) ==
    LET tk == ticks[t] IN
    IF outs # <<>> /\ outs[Len(outs)].kind = "error"
    THEN /\ posts' = ps
         /\ hist' = h
         /\ ticks' = [ticks EXCEPT ![t] = IdleTick]
         /\ sweep' = [NoSweep EXCEPT !.threw = TRUE, !.slot = t, !.now = now]
    ELSE IF tk.i < Len(tk.batch)
    THEN /\ posts' = ps
         /\ hist' = CalledHist(h, tk.batch[tk.i + 1])
         /\ ticks' = [ticks EXCEPT ![t] = [pc |-> "moderating", batch |-> tk.batch,
                                           texts |-> tk.texts,
                                           i |-> tk.i + 1, outcomes |-> outs,
                                           hook |-> tk.hook]]
         /\ sweep' = NoSweep
    ELSE processScheduledPublishing(t, ps, h, tk.batch, outs, fastifyInstance, tk.hook)

\* The tick in slot t after the loop body for batch[i] is done: the call
\* for the next post of the batch, or the end of phase 1 and phase 2.
Continue(t, ps, h, outs) ==
    LET tk == ticks[t] IN
    IF tk.i < Len(tk.batch)
    THEN /\ posts' = ps
         /\ hist' = CalledHist(h, tk.batch[tk.i + 1])
         /\ ticks' = [ticks EXCEPT ![t] = [pc |-> "moderating", batch |-> tk.batch,
                                           texts |-> tk.texts,
                                           i |-> tk.i + 1, outcomes |-> outs,
                                           hook |-> tk.hook]]
         /\ sweep' = NoSweep
    ELSE processScheduledPublishing(t, ps, h, tk.batch, outs, fastifyInstance, tk.hook)

\* The text column of the rows of a batch as the phase-1 select read it.
SelectedTexts(ps, batch) == [i \in 1..Len(batch) |-> ps[batch[i]].text]

\* workerTick up to its first suspension, in the free slot t.  With no
\* pending post, or with no API key (every call throws before it suspends),
\* the whole tick runs without yielding to another handler.
\* The store may throw at the phase-1 select: the catch at the top of the
\* tick logs it and the tick ends with nothing done.
workerTick(t, fi) ==
    \/ /\ posts' = posts
       /\ hist' = hist
       /\ ticks' = ticks
       /\ sweep' = [NoSweep EXCEPT !.threw = TRUE, !.slot = t, !.now = now]
    \/ \E batch \in SelectPendingModeration(posts) :
        IF batch = <<>>
        THEN processScheduledPublishing(t, posts, hist, <<>>, <<>>, fi, HasHook(fi))
        ELSE IF ~apiKey
        THEN processScheduledPublishing(t,
                 [p \in DOMAIN posts |->
                    IF p \in Range(batch)
                    THEN ErrorRow(posts[p], now, MissingKey.message) ELSE posts[p]],
                 [p \in DOMAIN hist |->
                    IF p \in Range(batch)
                    THEN ModeratedHist(CalledHist(hist, p), p, MissingKey)[p] ELSE hist[p]],
                 batch,
                 [i \in 1..Len(batch) |->
                    Outcome(ErrorRow(posts[batch[i]], now, MissingKey.message), MissingKey)],
                 fi, HasHook(fi))
        ELSE /\ posts' = posts
             /\ hist' = CalledHist(hist, batch[1])
             /\ ticks' = [ticks EXCEPT ![t] = [pc |-> "moderating", batch |-> batch,
                                               texts |-> SelectedTexts(posts, batch),
                                               i |-> 1, outcomes |-> <<>>,
                                               hook |-> HasHook(fi)]]
             /\ sweep' = NoSweep

\* The slot a new tick takes.
FreeSlot(t) ==
    /\ ticks[t].pc = "idle"
    /\ \A u \in TickIds : u < t => ticks[u].pc # "idle"

\* Variant of startAutoPublishWorker: the test of workerInterval is lost.
startAutoPublishWorkerUnguarded(fastify) ==
    /\ \E t \in TickIds : FreeSlot(t) /\ workerTick(t, fastify)
    /\ fastifyInstance' = fastify
    /\ workerInterval' = TRUE
    /\ timers' = timers + 1
    /\ mail' = NoMail
    /\ verdict' = NoVerdict
    /\ response' = NoResponse
    /\ cache' = CacheAfterSweep(cache, sweep')
    /\ feed' = NoFeed
    /\ UNCHANGED <<users, now, apiKey, emailConfigured>>

startAutoPublishWorker(fastify) ==
    /\ IF workerInterval
       THEN UNCHANGED <<posts, hist, ticks, workerInterval, fastifyInstance, timers>>
            /\ sweep' = [NoSweep EXCEPT !.refused = fastify]
       ELSE /\ \E t \in TickIds : FreeSlot(t) /\ workerTick(t, fastify)
            /\ fastifyInstance' = fastify
            /\ workerInterval' = TRUE
            /\ timers' = timers + 1
    /\ mail' = NoMail
    /\ verdict' = NoVerdict
    /\ response' = NoResponse
    /\ cache' = CacheAfterSweep(cache, sweep')
    /\ feed' = NoFeed
    /\ UNCHANGED <<users, now, apiKey, emailConfigured>>

\* Variant of stopAutoPublishWorker: the handle is dropped, the interval
\* is not cleared.
stopAutoPublishWorkerKeepingTimer ==
    /\ IF workerInterval
       THEN /\ timers' = timers
            /\ workerInterval' = FALSE
            /\ fastifyInstance' = NoFastify
       ELSE UNCHANGED <<timers, workerInterval, fastifyInstance>>
    /\ sweep' = NoSweep
    /\ mail' = NoMail
    /\ verdict' = NoVerdict
    /\ response' = NoResponse
    /\ cache' = cache
    /\ feed' = NoFeed
    /\ UNCHANGED <<posts, users, now, apiKey, emailConfigured, ticks, hist>>

stopAutoPublishWorker ==
    /\ IF workerInterval
       THEN /\ timers' = timers - 1
            /\ workerInterval' = FALSE
            /\ fastifyInstance' = NoFastify
       ELSE UNCHANGED <<timers, workerInterval, fastifyInstance>>
    /\ sweep' = NoSweep
    /\ mail' = NoMail
    /\ verdict' = NoVerdict
    /\ response' = NoResponse
    /\ cache' = cache
    /\ feed' = NoFeed
    /\ UNCHANGED <<posts, users, now, apiKey, emailConfigured, ticks, hist>>

\* Variant of TimersAfterCallback: a throw leaves workerTick as a rejected
\* promise nobody handles, which ends the process and its timers.
TimersAfterUncaughtThrow(n, threw) == IF threw THEN 0 ELSE n

\* The live timers after the interval callback has returned: workerTick
\* catches whatever its body throws, so its promise never rejects.
TimersAfterCallback(n, threw) == n

\* The interval timer calls workerTick.
TimerFires ==
    /\ timers > 0
    /\ \E t \in TickIds : FreeSlot(t) /\ workerTick(t, fastifyInstance)
    /\ timers' = TimersAfterCallback(timers, sweep'.threw)
    /\ mail' = NoMail
    /\ verdict' = NoVerdict
    /\ response' = NoResponse
    /\ cache' = CacheAfterSweep(cache, sweep')
    /\ feed' = NoFeed
    /\ UNCHANGED <<users, now, apiKey, emailConfigured, workerInterval,
                   fastifyInstance>>

\* The moderation call of the tick in slot t settles with resp.
ModerationReturns(t, resp) ==
    /\ ticks[t].pc = "moderating"
    /\ LET tk == ticks[t]
           p == tk.batch[tk.i]
           v == moderatePostContent(resp)
           ps == ModeratedPosts(posts, p, v)
           h == ModeratedHist(hist, p, v)
           outs == Append(tk.outcomes, Outcome(ps[p], v))
       IN IF Notifies(v) /\ emailConfigured
          THEN /\ posts' = ps
               /\ hist' = h
               /\ ticks' = [ticks EXCEPT ![t] = [tk EXCEPT !.pc = "notifying",
                                                           !.outcomes = outs]]
               /\ sweep' = NoSweep
          ELSE IF Notifies(v)
          THEN Continue(t, NotifiedPosts(ps, p, FALSE), h, outs)
          ELSE Continue(t, ps, h, outs)
    /\ mail' = MailFor(ticks[t].batch[ticks[t].i], moderatePostContent(resp))
    /\ verdict' = [settled |-> TRUE, postId |-> ticks[t].batch[ticks[t].i],
                   before |-> posts[ticks[t].batch[ticks[t].i]].status,
                   response |-> resp, result |-> moderatePostContent(resp)]
    /\ response' = NoResponse
    /\ cache' = CacheAfterSweep(cache, sweep')
    /\ feed' = NoFeed
    /\ UNCHANGED <<users, now, apiKey, emailConfigured, workerInterval,
                   fastifyInstance, timers>>

\* transport.sendMail of the tick in slot t settles: sent, or rejected and
\* caught inside sendModerationRejectionEmail; the result is dropped.
NotifyReturns(t, sent) ==
    /\ ticks[t].pc = "notifying"
    /\ Continue(t, NotifiedPosts(posts, ticks[t].batch[ticks[t].i], sent),
                hist, ticks[t].outcomes)
    /\ mail' = [called |-> FALSE, returned |-> TRUE, sent |-> sent,
                postId |-> ticks[t].batch[ticks[t].i], reason |-> ""]
    /\ verdict' = NoVerdict
    /\ response' = NoResponse
    /\ cache' = CacheAfterSweep(cache, sweep')
    /\ feed' = NoFeed
    /\ UNCHANGED <<users, now, apiKey, emailConfigured, workerInterval,
                   fastifyInstance, timers>>


\* ------------------------------------------------------------ the routes
\* schedulePostForAutoPublish: the deadline it computes and returns (setHours
\* on the local wall clock; an offset that is constant over the delay is
\* taken) and the table after its UPDATE.
publishAt(delayHours) == now + delayHours

\* Variant of schedulePostForAutoPublish: a deadline already set is kept
\* (publish_at = COALESCE(publish_at, ?)).
schedulePostForAutoPublishKeepingDeadline(ps, postId, delayHours) ==
    [ps EXCEPT ![postId].publish_at =
                   IF @ # NULL THEN @ ELSE publishAt(delayHours)]

schedulePostForAutoPublish(ps, postId, delayHours) ==
    [ps EXCEPT ![postId].publish_at = publishAt(delayHours)]

\* Variant of AutoPublishFor: the owner's flag is not read.
AutoPublishForAnyOwner(key) ==
    /\ key # NULLTEXT
    /\ UserExists(key)

\* The test of POST /ingest/text that decides whether to schedule.
AutoPublishFor(key) ==
    /\ key # NULLTEXT
    /\ UserExists(key)
    /\ getUserByClientKey(key).auto_publish_enabled

\* POST /ingest/text with a valid body carrying client_key key.
IngestText(key) ==
    /\ Len(posts) < MaxPosts
    /\ LET postId == Len(posts) + 1
           inserted == Append(posts, NewPost)
       IN /\ posts' = IF AutoPublishFor(key)
                      THEN schedulePostForAutoPublish(inserted, postId, IngestDelayHours)
                      ELSE inserted
          /\ response' = [sent |-> TRUE, client_key |-> key, id |-> postId,
                          status |-> "draft",
                          auto_publish_scheduled |-> AutoPublishFor(key),
                          publish_at |-> IF AutoPublishFor(key)
                                         THEN publishAt(IngestDelayHours) ELSE NULL]
    /\ hist' = Append(hist, NoHist)
    /\ sweep' = NoSweep
    /\ mail' = NoMail
    /\ verdict' = NoVerdict
    /\ cache' = cache
    /\ feed' = NoFeed
    /\ UNCHANGED <<users, now, apiKey, emailConfigured, workerInterval,
                   fastifyInstance, timers, ticks>>

\* POST /admin/posts/:id/publish for an existing post
AdminPublish(p) ==
    /\ p \in PostIds
    /\ posts' = [posts EXCEPT ![p] =
                   IF posts[p].pub_date = NULL
                   THEN [@ EXCEPT !.status = "published", !.pub_date = now,
                                  !.updated_at = now]
                   ELSE [@ EXCEPT !.status = "published", !.updated_at = now]]
    /\ hist' = hist
    /\ sweep' = NoSweep
    /\ mail' = NoMail
    /\ verdict' = NoVerdict
    /\ response' = NoResponse
    /\ \E fastify \in Fastifies :
          /\ cache' = IF HasHook(fastify) THEN invalidate(cache) ELSE cache
          /\ feed' = [NoFeed EXCEPT !.invalidated = HasHook(fastify)]
    /\ UNCHANGED <<users, now, apiKey, emailConfigured, workerInterval,
                   fastifyInstance, timers, ticks>>

\* POST /admin/posts/:id/unpublish for an existing post
AdminUnpublish(p) ==
    /\ p \in PostIds
    /\ posts' = [posts EXCEPT ![p] = [@ EXCEPT !.status = "draft", !.updated_at = now]]
    /\ hist' = hist
    /\ sweep' = NoSweep
    /\ mail' = NoMail
    /\ verdict' = NoVerdict
    /\ response' = NoResponse
    /\ \E fastify \in Fastifies :
          /\ cache' = IF HasHook(fastify) THEN invalidate(cache) ELSE cache
          /\ feed' = [NoFeed EXCEPT !.invalidated = HasHook(fastify)]
    /\ UNCHANGED <<users, now, apiKey, emailConfigured, workerInterval,
                   fastifyInstance, timers, ticks>>

\* PATCH /admin/posts/:id with a valid text for an existing post: the text
\* column holds the number of times the text was replaced.
AdminPatchText(p) ==
    /\ p \in PostIds
    /\ posts[p].text < MaxEdits
    /\ posts' = [posts EXCEPT ![p] = [@ EXCEPT !.text = @ + 1, !.updated_at = now]]
    /\ hist' = hist
    /\ sweep' = NoSweep
    /\ mail' = NoMail
    /\ verdict' = NoVerdict
    /\ response' = NoResponse
    /\ cache' = cache
    /\ feed' = NoFeed
    /\ UNCHANGED <<users, now, apiKey, emailConfigured, workerInterval,
                   fastifyInstance, timers, ticks>>

\* POST /admin/auto-publish/toggle and POST /admin/users/:id/auto-publish
setAutoPublishEnabled(key, enabled) ==
    /\ key \in DOMAIN users
    /\ users[key].auto_publish_enabled # enabled
    /\ users' = [users EXCEPT ![key].auto_publish_enabled = enabled]
    /\ sweep' = NoSweep
    /\ mail' = NoMail
    /\ verdict' = NoVerdict
    /\ response' = NoResponse
    /\ cache' = cache
    /\ feed' = NoFeed
    /\ UNCHANGED <<posts, now, apiKey, emailConfigured, workerInterval,
                   fastifyInstance, timers, ticks, hist>>

\* Time passes.
AdvanceClock ==
    /\ now + ClockStep <= MaxTime
    /\ now' = now + ClockStep
    /\ sweep' = NoSweep
    /\ mail' = NoMail
    /\ verdict' = NoVerdict
    /\ response' = NoResponse
    /\ cache' = cache
    /\ feed' = NoFeed
    /\ UNCHANGED <<posts, users, apiKey, emailConfigured, workerInterval,
                   fastifyInstance, timers, ticks, hist>>

Next ==
    \/ \E key \in IngestKeys : IngestText(key)
    \/ \E p \in PostIds : AdminPublish(p)
    \/ \E p \in PostIds : AdminUnpublish(p)
    \/ \E p \in PostIds : AdminPatchText(p)
    \/ \E key \in RegisteredKeys, enabled \in BOOLEAN : setAutoPublishEnabled(key, enabled)
    \/ \E fastify \in Fastifies : startAutoPublishWorker(fastify)
    \/ stopAutoPublishWorker
    \/ TimerFires
    \/ \E t \in TickIds, resp \in Responses : ModerationReturns(t, resp)
    \/ \E t \in TickIds, sent \in BOOLEAN : NotifyReturns(t, sent)
    \/ AdvanceClock

Spec == Init /\ [][Next]_vars

\* ------------------------------------------------- restart with a backlog
\* The process comes up after an outage longer than the delay: the posts
\* ingested and approved before it went down are overdue drafts, the posts
\* ingested just before it went down are overdue and unmoderated.
ApprovedOverdue ==
    [status |-> "draft", publish_at |-> StartTime + IngestDelayHours,
     moderation_checked_at |-> StartTime, moderation_reason |-> "ok", pub_date |-> NULL,
     updated_at |-> StartTime, text |-> 0]
PendingOverdue ==
    [status |-> "draft", publish_at |-> StartTime + IngestDelayHours,
     moderation_checked_at |-> NULL, moderation_reason |-> NULLTEXT, pub_date |-> NULL,
     updated_at |-> StartTime, text |-> 0]

InitBacklog ==
    /\ \E n \in 0..MaxBacklog, m \in 1..MaxPending :
          /\ posts = [p \in 1..(n + m) |-> IF p <= n THEN ApprovedOverdue ELSE PendingOverdue]
          /\ hist = [p \in 1..(n + m) |->
                       IF p <= n THEN [modCalls |-> 1, checkedWrites |-> 1, notified |-> 0]
                       ELSE NoHist]
    /\ users = [k \in RegisteredKeys |->
                 [email |-> "u1@example.org", auto_publish_enabled |-> TRUE]]
    /\ now = StartTime + IngestDelayHours
    /\ apiKey \in BOOLEAN
    /\ emailConfigured \in BOOLEAN
    /\ workerInterval = FALSE
    /\ fastifyInstance = NoFastify
    /\ timers = 0
    /\ ticks = [t \in TickIds |-> IdleTick]
    /\ sweep = NoSweep
    /\ mail = NoMail
    /\ verdict = NoVerdict
    /\ response = NoResponse
    /\ cache = NoCache
    /\ feed = NoFeed

NextWorker ==
    \/ \E fastify \in Fastifies : startAutoPublishWorker(fastify)
    \/ stopAutoPublishWorker
    \/ TimerFires
    \/ \E t \in TickIds, resp \in Responses : ModerationReturns(t, resp)
    \/ \E t \in TickIds, sent \in BOOLEAN : NotifyReturns(t, sent)

SpecBacklog == InitBacklog /\ [][NextWorker]_vars

\* ------------------------------------------------ start with a full batch
\* The worker starts while several ingested posts wait for moderation.
InitBatch ==
    /\ posts = [p \in 1..MaxBatch |-> PendingOverdue]
    /\ hist = [p \in 1..MaxBatch |-> NoHist]
    /\ users = [k \in RegisteredKeys |->
                 [email |-> "u1@example.org", auto_publish_enabled |-> TRUE]]
    /\ now = StartTime + IngestDelayHours
    /\ apiKey \in BOOLEAN
    /\ emailConfigured \in BOOLEAN
    /\ workerInterval = FALSE
    /\ fastifyInstance = NoFastify
    /\ timers = 0
    /\ ticks = [t \in TickIds |-> IdleTick]
    /\ sweep = NoSweep
    /\ mail = NoMail
    /\ verdict = NoVerdict
    /\ response = NoResponse
    /\ cache = NoCache
    /\ feed = NoFeed

SpecBatch == InitBatch /\ [][NextWorker]_vars

\* ------------------------------------------- a worker that keeps ticking
\* The server process when nobody stops the worker: it is started, the
\* interval keeps firing, the store answers the tick's first select, and
\* every moderation call and every sendMail settles.
NextTicking ==
    \/ \E key \in IngestKeys : IngestText(key)
    \/ \E p \in PostIds : AdminPublish(p)
    \/ \E p \in PostIds : AdminUnpublish(p)
    \/ \E p \in PostIds : AdminPatchText(p)
    \/ \E key \in RegisteredKeys, enabled \in BOOLEAN : setAutoPublishEnabled(key, enabled)
    \/ \E fastify \in Fastifies : startAutoPublishWorker(fastify)
    \/ TimerFires
    \/ \E t \in TickIds, resp \in Responses : ModerationReturns(t, resp)
    \/ \E t \in TickIds, sent \in BOOLEAN : NotifyReturns(t, sent)
    \/ AdvanceClock

Ticking ==
    /\ WF_vars(\E fastify \in Fastifies : startAutoPublishWorker(fastify))
    /\ WF_vars(TimerFires /\ ~sweep'.threw)
    /\ \A t \in TickIds : WF_vars(\E resp \in Responses : ModerationReturns(t, resp))
    /\ \A t \in TickIds : WF_vars(\E sent \in BOOLEAN : NotifyReturns(t, sent))

SpecTicking == Init /\ [][NextTicking]_vars /\ Ticking

\* ------------------------------------ start with more than the limits
\* The worker starts on a table that holds more rows than one tick takes:
\* without an API key (every tick runs to its end in one step)
\* ModerationLimit + 1 unmoderated and MaxOverdue approved overdue drafts;
\* with an API key PublishLimit + 1 approved overdue drafts and one
\* unmoderated draft.
InitLimits ==
    /\ apiKey \in BOOLEAN
    /\ LET n == IF apiKey THEN PublishLimit + 1 ELSE MaxOverdue
           m == IF apiKey THEN 1 ELSE ModerationLimit + 1
       IN /\ posts = [p \in 1..(n + m) |-> IF p <= n THEN ApprovedOverdue ELSE PendingOverdue]
          /\ hist = [p \in 1..(n + m) |->
                       IF p <= n THEN [modCalls |-> 1, checkedWrites |-> 1, notified |-> 0]
                       ELSE NoHist]
    /\ users = [k \in RegisteredKeys |->
                 [email |-> "u1@example.org", auto_publish_enabled |-> TRUE]]
    /\ now = StartTime + IngestDelayHours
    /\ emailConfigured \in BOOLEAN
    /\ workerInterval = FALSE
    /\ fastifyInstance = NoFastify
    /\ timers = 0
    /\ ticks = [t \in TickIds |-> IdleTick]
    /\ sweep = NoSweep
    /\ mail = NoMail
    /\ verdict = NoVerdict
    /\ response = NoResponse
    /\ cache = NoCache
    /\ feed = NoFeed

SpecLimits == InitLimits /\ [][NextWorker]_vars

\* ------------------------------------------------- the feed being read
\* The server with readers of /rss.xml: MaxFeedPosts moderated posts, some
\* already published, are published, unpublished and edited by editors and
\* published by the worker while the feed is requested.
PublishedEarlier ==
    [ApprovedOverdue EXCEPT !.status = "published", !.pub_date = StartTime]

InitRss ==
    /\ posts \in [1..MaxFeedPosts -> {ApprovedOverdue, PublishedEarlier}]
    /\ hist = [p \in 1..MaxFeedPosts |->
                 [modCalls |-> 1, checkedWrites |-> 1, notified |-> 0]]
    /\ users = [k \in RegisteredKeys |->
                 [email |-> "u1@example.org", auto_publish_enabled |-> TRUE]]
    /\ now = StartTime + IngestDelayHours
    /\ apiKey = TRUE
    /\ emailConfigured = FALSE
    /\ workerInterval = FALSE
    /\ fastifyInstance = NoFastify
    /\ timers = 0
    /\ ticks = [t \in TickIds |-> IdleTick]
    /\ sweep = NoSweep
    /\ mail = NoMail
    /\ verdict = NoVerdict
    /\ response = NoResponse
    /\ cache = NoCache
    /\ feed = NoFeed

NextRss ==
    \/ \E p \in PostIds : AdminPublish(p)
    \/ \E p \in PostIds : AdminUnpublish(p)
    \/ \E p \in PostIds : AdminPatchText(p)
    \/ \E fastify \in Fastifies : startAutoPublishWorker(fastify)
    \/ stopAutoPublishWorker
    \/ TimerFires
    \/ \E notModified \in BOOLEAN : GetRss(notModified)

SpecRss == InitRss /\ [][NextRss]_vars

\* --------------------------------------------- the scheduler on its own
\* schedulePostForAutoPublish is exported: it is applied here to any row of
\* a table of MaxScheduled posts in any state.  Post 1 was scheduled when it
\* was ingested, the others were not.
ScheduleDelays == {1, IngestDelayHours}

ScheduledRows ==
    { [status |-> st, publish_at |-> StartTime + IngestDelayHours,
       moderation_checked_at |-> c,
       moderation_reason |-> IF c = NULL THEN NULLTEXT ELSE "ok",
       pub_date |-> IF st = "published" THEN StartTime ELSE NULL,
       updated_at |-> StartTime, text |-> 0] :
      st \in {"draft", "published"}, c \in {NULL, StartTime} }

UnscheduledRows ==
    { [status |-> st, publish_at |-> NULL, moderation_checked_at |-> NULL,
       moderation_reason |-> NULLTEXT,
       pub_date |-> IF st = "published" THEN StartTime ELSE NULL,
       updated_at |-> StartTime, text |-> 0] :
      st \in {"draft", "published"} }

InitSchedule ==
    /\ posts \in { ps \in [1..MaxScheduled -> ScheduledRows \cup UnscheduledRows] :
                    /\ ps[1] \in ScheduledRows
                    /\ \A p \in 2..MaxScheduled : ps[p] \in UnscheduledRows }
    /\ hist = [p \in 1..MaxScheduled |-> NoHist]
    /\ users = [k \in RegisteredKeys |->
                 [email |-> "u1@example.org", auto_publish_enabled |-> TRUE]]
    /\ now = StartTime
    /\ apiKey = TRUE
    /\ emailConfigured = FALSE
    /\ workerInterval = FALSE
    /\ fastifyInstance = NoFastify
    /\ timers = 0
    /\ ticks = [t \in TickIds |-> IdleTick]
    /\ sweep = NoSweep
    /\ mail = NoMail
    /\ verdict = NoVerdict
    /\ response = NoResponse
    /\ cache = NoCache
    /\ feed = NoFeed

\* A call schedulePostForAutoPublish(postId, delayHours); what it returns is
\* kept in response (id: the argument, publish_at: the returned Date).
ScheduleCall(postId, delayHours) ==
    /\ posts' = schedulePostForAutoPublish(posts, postId, delayHours)
    /\ response' = [NoResponse EXCEPT !.id = postId,
                                      !.publish_at = publishAt(delayHours)]
    /\ sweep' = NoSweep
    /\ mail' = NoMail
    /\ verdict' = NoVerdict
    /\ cache' = cache
    /\ feed' = NoFeed
    /\ UNCHANGED <<users, now, apiKey, emailConfigured, workerInterval,
                   fastifyInstance, timers, ticks, hist>>

NextSchedule ==
    \/ \E p \in PostIds, d \in ScheduleDelays : ScheduleCall(p, d)
    \/ AdvanceClock

SpecSchedule == InitSchedule /\ [][NextSchedule]_vars


\* ================================================================ claims
ThrowMessages ==
    { r.message : r \in { x \in Responses : x.kind # "ok" } } \cup { MissingKey.message }
ErrorReasons == { "Moderation error: " \o m : m \in ThrowMessages }

\* C1: the moderation adapter is called at most once per post and
\* moderation_checked_at is written at most once per post.
C1_ModeratedAtMostOnce ==
    \A p \in PostIds : hist[p].modCalls <= 1 /\ hist[p].checkedWrites <= 1

\* C2: the publish sweep of a tick never publishes a post that it did not
\* moderate itself, whose recorded moderation outcome is an adapter error and
\* that has never been published (no manual publish has changed it).
C2_ErrorPostStaysDraft ==
    \A s \in sweep.selected :
        ~ ( /\ s.moderation_reason \in ErrorReasons
            /\ s.pub_date = NULL
            /\ s.id \notin Range(sweep.batch) )

\* C3: the rejection update sets status, moderation_checked_at,
\* moderation_reason and publish_at together, and no publish sweep ever
\* selects a post that the worker has rejected.
C3_RejectionCancelsPublication ==
    /\ mail.called =>
         /\ posts[mail.postId].status = "warning"
         /\ posts[mail.postId].publish_at = NULL
         /\ posts[mail.postId].moderation_checked_at = now
         /\ posts[mail.postId].moderation_reason = mail.reason
    /\ \A s \in sweep.selected : s.notified = 0

\* C3 witness: a sweep ran past the deadline while a rejected post was a
\* draft again (an editor unpublished it), and left it alone.
C3_Witness ==
    /\ sweep.ran
    /\ sweep.now >= StartTime + IngestDelayHours
    /\ \E p \in PostIds : hist[p].notified > 0 /\ posts[p].status = "draft"

\* C5: every row the publish sweep selects is, when selected, a draft with a
\* deadline that is set and not after the sweep's now, and with
\* moderation_checked_at set.
C5_PublishesOnlyDueModeratedDrafts ==
    \A s \in sweep.selected :
        /\ s.status = "draft"
        /\ s.publish_at # NULL
        /\ s.publish_at <= sweep.now
        /\ s.moderation_checked_at # NULL

\* C5 witness: a sweep that published a post.
C5_Witness ==
    \E s \in sweep.selected : posts[s.id].status = "published"

\* C6: a published post has a pub_date, and a pub_date that is set keeps
\* its value in every step.
C6_PubDateWriteOnce ==
    /\ [](\A p \in PostIds : posts[p].status = "published" => posts[p].pub_date # NULL)
    /\ [][\A p \in PostIds : posts[p].pub_date # NULL =>
                              posts'[p].pub_date = posts[p].pub_date]_vars

\* C6 witness: the worker publishes again, at a later time, a post that
\* already carried a pub_date, and the pub_date is still the old one.
C6_Witness ==
    \E s \in sweep.selected :
        /\ s.pub_date # NULL
        /\ s.pub_date < sweep.now
        /\ posts[s.id].status = "published"
        /\ posts[s.id].pub_date = s.pub_date


\* C7: when the adapter throws for the post a tick moderates last, then at
\* the end of that tick the post has the status and the deadline the error
\* update found (draft, publish_at set), moderation_checked_at set and
\* moderation_reason "Moderation error: <message>", and no notification was
\* sent for it.
C7_ErrorLeavesDraftScheduled ==
    (sweep.ran /\ sweep.batch # <<>>) =>
        LET last == sweep.outcomes[Len(sweep.outcomes)]
            p == sweep.batch[Len(sweep.batch)]
        IN (last.kind = "error" /\ last.status = "draft") =>
               /\ posts[p].status = "draft"
               /\ posts[p].publish_at = last.publish_at
               /\ posts[p].publish_at # NULL
               /\ posts[p].moderation_checked_at # NULL
               /\ posts[p].moderation_reason \in ErrorReasons
               /\ ~mail.called

\* The model's text is not valid JSON, or parses without the required
\* shape: a boolean is_approved, and a reason when it is false.
Malformed(content) ==
    \/ ~content.parses
    \/ content.is_approved.t # "boolean"
    \/ (~content.is_approved.b /\ ~ToBoolean(content.reason))

\* C8: for every malformed model response the adapter returns the verdict
\* {is_approved: false, reason: "Invalid JSON response from moderation LLM"}
\* and the post is in status warning with exactly that moderation_reason.
C8_MalformedOutputRejected ==
    (verdict.settled /\ verdict.response.kind = "ok"
                     /\ Malformed(verdict.response.content)) =>
        /\ verdict.result = Verdict(FALSE, InvalidJsonReason)
        /\ posts[verdict.postId].status = "warning"
        /\ posts[verdict.postId].moderation_reason = InvalidJsonReason

\* C9: a rejection with reason r leaves the post in status warning with
\* moderation_reason r and publish_at NULL when the notification adapter is
\* called with r, and the adapter is called at most once per post.
C9_NotifiedOncePerRejection ==
    /\ mail.called =>
         /\ posts[mail.postId].status = "warning"
         /\ posts[mail.postId].moderation_reason = mail.reason
         /\ posts[mail.postId].publish_at = NULL
         /\ verdict.settled /\ verdict.result.reason = mail.reason
    /\ \A p \in PostIds : hist[p].notified <= 1

ApprovedAndDue ==
    { sweep.batch[i] : i \in { j \in DOMAIN sweep.batch :
        /\ sweep.outcomes[j].kind = "approved"
        /\ posts[sweep.batch[j]].publish_at # NULL
        /\ posts[sweep.batch[j]].publish_at <= sweep.now } }

\* C4 as stated: every post a tick approves and that is due when its phase 2
\* runs is published at the end of that tick, however many posts are eligible.
C4_ApprovedDuePublishedSameTick ==
    sweep.ran => \A p \in ApprovedAndDue : posts[p].status = "published"

\* C4 amended: every post a tick approves and that is due when its phase 2
\* runs is published at the end of that tick, provided at most 10 posts
\* match the phase-2 predicate in that tick.
C4_ApprovedDuePublishedWithinLimit ==
    (sweep.ran /\ Cardinality(sweep.eligible) <= PublishLimit) =>
        \A p \in ApprovedAndDue : posts[p].status = "published"

\* C4 witness: a tick approved a due post, exactly 10 posts were eligible in
\* its phase 2, and the post is published.
C4_Witness ==
    /\ sweep.ran
    /\ Cardinality(sweep.eligible) = PublishLimit
    /\ \E p \in ApprovedAndDue : p \in sweep.eligible /\ posts[p].status = "published"

\* C11: a tick in which no post matches the phase-1 predicate and no post
\* matches the phase-2 predicate changes no post field, makes no moderation
\* call, sends no notification and calls no feed-invalidation hook.
C11_EmptyTickIsNoOp ==
    [][(sweep'.ran /\ sweep'.batch = <<>> /\ sweep'.eligible = {}) =>
          /\ posts' = posts
          /\ hist' = hist
          /\ ~verdict'.settled
          /\ ~mail'.called
          /\ sweep'.invalidated = 0
          /\ sweep'.log = <<>>]_vars

\* A tick found nothing to do although a scheduled draft exists.
C11_Witness ==
    /\ sweep.ran
    /\ sweep.batch = <<>>
    /\ sweep.eligible = {}
    /\ \E p \in PostIds : posts[p].status = "draft" /\ posts[p].publish_at # NULL

\* C12: whatever the outcome for a post of a phase-1 batch (approval,
\* rejection, adapter exception, failed notification), the tick goes on to
\* the next post of the batch, and after the last one to phase 2: a tick
\* ends only with every post of its batch moderated and phase 2 run.
C12_BatchSurvivesFailure ==
    [][\A t \in TickIds : ticks[t].pc # "idle" =>
          LET tk == ticks[t] IN
          \/ ticks'[t] = tk
          \/ /\ tk.pc = "moderating"
             /\ ticks'[t] = [tk EXCEPT !.pc = "notifying", !.outcomes = ticks'[t].outcomes]
             /\ Len(ticks'[t].outcomes) = tk.i
             /\ ticks'[t].outcomes[tk.i].kind = "rejected"
          \/ /\ tk.i < Len(tk.batch)
             /\ ticks'[t].pc = "moderating"
             /\ ticks'[t].batch = tk.batch
             /\ ticks'[t].i = tk.i + 1
             /\ Len(ticks'[t].outcomes) = tk.i
             /\ hist'[tk.batch[tk.i + 1]].modCalls = hist[tk.batch[tk.i + 1]].modCalls + 1
          \/ /\ tk.i = Len(tk.batch)
             /\ ticks'[t].pc = "idle"
             /\ sweep'.ran
             /\ sweep'.slot = t
             /\ sweep'.batch = tk.batch
             /\ Len(sweep'.outcomes) = Len(tk.batch)]_vars

\* A tick ended with phase 2 after its first post ran into an adapter
\* exception or a rejection, and its second was approved and published.
C12_Witness ==
    /\ sweep.ran
    /\ Len(sweep.batch) = 2
    /\ sweep.outcomes[1].kind \in {"error", "rejected"}
    /\ sweep.outcomes[2].kind = "approved"
    /\ posts[sweep.batch[2]].status = "published"

\* C13: calling startAutoPublishWorker while the worker is running starts
\* no tick, creates no second interval timer and replaces neither the
\* stored fastify reference nor the interval; at every moment at most one
\* interval timer is active.
C13_StartIsIdempotent ==
    /\ [](timers <= 1 /\ (workerInterval <=> timers = 1))
    /\ [][(workerInterval /\ \E f \in Fastifies : startAutoPublishWorker(f)) =>
            /\ UNCHANGED <<posts, hist, ticks, timers, workerInterval, fastifyInstance>>
            /\ sweep'.refused # NoFastify
            /\ ~sweep'.ran /\ ~sweep'.threw]_vars

\* A start call that passed another instance was refused while a tick of
\* the running worker was in flight.
C13_Witness ==
    /\ sweep.refused # NoFastify
    /\ sweep.refused # fastifyInstance
    /\ workerInterval
    /\ timers = 1
    /\ \E t \in TickIds : ticks[t].pc = "moderating"

\* A tick starts in slot t: it suspends at its first moderation call, or
\* runs to its end, or throws at once.
TickStarts(t) ==
    /\ ticks[t].pc = "idle"
    /\ \/ ticks'[t].pc = "moderating"
       \/ (sweep'.ran \/ sweep'.threw) /\ sweep'.slot = t

\* C14: stop() cancels the interval and clears the stored references, and no
\* tick starts after it until start is called again; stop() on a worker
\* that is not running changes no state; a tick in flight when stop() is
\* called is left as it is and can still take its next step.
C14_StopPreventsFutureTicks ==
    /\ [](~workerInterval => timers = 0 /\ fastifyInstance = NoFastify)
    /\ [](\A t \in TickIds :
            /\ ticks[t].pc = "moderating" => ENABLED (\E resp \in Responses : ModerationReturns(t, resp))
            /\ ticks[t].pc = "notifying" => ENABLED (\E sent \in BOOLEAN : NotifyReturns(t, sent)))
    /\ [][/\ stopAutoPublishWorker =>
               /\ ~workerInterval' /\ timers' = 0 /\ fastifyInstance' = NoFastify
               /\ UNCHANGED <<posts, users, hist, ticks, now>>
          /\ (~workerInterval /\ stopAutoPublishWorker) =>
               UNCHANGED <<posts, users, hist, ticks, now, timers, workerInterval,
                           fastifyInstance, apiKey, emailConfigured>>
          /\ (~workerInterval /\ \E t \in TickIds : TickStarts(t)) => workerInterval']_vars

\* A tick that was in flight when stop() was called has run to its end.
C14_Witness ==
    /\ sweep.ran
    /\ sweep.batch # <<>>
    /\ ~workerInterval
    /\ timers = 0
    /\ \A t \in TickIds : ticks[t].pc = "idle"

\* C15: an accepted start runs one tick at once and arms the interval; a
\* tick fired by the interval leaves the interval armed; a tick whose body
\* throws ends at the catch at its top with nothing changed, the interval
\* stays armed and the next tick can fire.
C15_TickThrowIsCaught ==
    /\ [](sweep.threw /\ (\E t \in TickIds : ticks[t].pc = "idle") => ENABLED TimerFires)
    /\ [][/\ (~workerInterval /\ workerInterval') =>
               (\E t \in TickIds : TickStarts(t)) /\ timers' = 1
          /\ TimerFires =>
               (\E t \in TickIds : TickStarts(t)) /\ timers' = timers /\ workerInterval'
          /\ sweep'.threw =>
               /\ workerInterval' /\ timers' = 1
               /\ UNCHANGED <<posts, hist, ticks>>]_vars

\* The tick threw while a post was waiting for moderation, and the
\* interval is still armed.
C15_Witness ==
    /\ sweep.threw
    /\ workerInterval
    /\ timers = 1
    /\ PendingModeration(posts) # {}

\* C16: when a tick of a worker that was started with an instance carrying
\* the feed-invalidation hook publishes posts, the hook is called exactly
\* once for each of them, right after that post's UPDATE; no post is
\* published by such a tick without its invalidation.
C16_InvalidatedOncePerPublish ==
    (sweep.ran /\ sweep.hook) =>
        \A s \in sweep.selected :
            /\ \E i \in DOMAIN sweep.log :
                  /\ sweep.log[i] = [op |-> "publish", id |-> s.id]
                  /\ i + 1 \in DOMAIN sweep.log
                  /\ sweep.log[i + 1] = [op |-> "invalidate", id |-> s.id]
            /\ Cardinality({ i \in DOMAIN sweep.log :
                               sweep.log[i] = [op |-> "invalidate", id |-> s.id] }) = 1

\* C17: a post's status becomes warning only from draft: whenever the
\* rejection UPDATE turns a post that is not yet warning into warning, the
\* post was a draft at that moment, whatever admin requests arrived while
\* the moderation call was awaited.
C17_WarningOnlyFromDraft ==
    (verdict.settled /\ ~verdict.result.threw /\ ~verdict.result.is_approved
       /\ verdict.before # "warning")
    => verdict.before = "draft"

\* C18: warning is terminal: once a post's status is warning no step of
\* the worker, the scheduler or the admin publish/unpublish routes changes
\* its status.
C18_WarningIsTerminal ==
    [][\A p \in PostIds : posts[p].status = "warning" => posts'[p].status = "warning"]_vars

\* C19: every post the worker puts in status warning has a non-empty
\* moderation_reason, whatever verdict the adapter returned, a rejection
\* whose JSON carries no reason included.
C19_WarningHasReason ==
    (verdict.settled /\ ~verdict.result.threw /\ ~verdict.result.is_approved) =>
        /\ posts[verdict.postId].status = "warning"
        /\ posts[verdict.postId].moderation_reason # ""
        /\ posts[verdict.postId].moderation_reason # NULLTEXT

C21_OneOutstandingModeration ==
    Cardinality({ t \in TickIds : ticks[t].pc = "moderating" }) <= 1

\* C22: every mutation of a post by the worker stamps the row's updated_at
\* with the time of the mutation: the row a moderation call settled for
\* (approved, rejected or recorded as an error) and every row the publish
\* sweep set to published carry updated_at = the time of that step.
C22_WorkerMutationBumpsUpdatedAt ==
    /\ verdict.settled => posts[verdict.postId].updated_at = now
    /\ sweep.ran => \A s \in sweep.selected : posts[s.id].updated_at = sweep.now

\* C23: when a moderation call settles with an approval, the worker's UPDATE
\* writes moderation_checked_at (the time of the step) and moderation_reason
\* (the adapter's reason, or "Approved" when that is empty) and nothing
\* else: status, publish_at and pub_date of the post are what they were (a
\* draft stays a draft), no other row is written by it, and no notification
\* is sent.  The row is read as phase 2 of the same tick saw it when that
\* phase selected it, and from the table otherwise.
C23_ApprovalWritesOnlyModeration ==
    [][(verdict'.settled /\ ~verdict'.result.threw /\ verdict'.result.is_approved) =>
         LET p == verdict'.postId
             old == posts[p]
             snaps == { s \in sweep'.selected : s.id = p }
             new == IF snaps = {} THEN posts'[p] ELSE CHOOSE s \in snaps : TRUE
         IN /\ new.status = old.status
            /\ new.publish_at = old.publish_at
            /\ new.pub_date = old.pub_date
            /\ new.moderation_checked_at = now'
            /\ new.moderation_reason = IF verdict'.result.reason # ""
                                       THEN verdict'.result.reason ELSE "Approved"
            /\ snaps = {} => posts'[p].updated_at = old.updated_at
            /\ \A q \in DOMAIN posts \ {p} :
                  (\A s \in sweep'.selected : s.id # q) => posts'[q] = posts[q]
            /\ mail' = NoMail
            /\ hist'[p].notified = hist[p].notified]_vars

\* An approval without a reason has settled for a draft that is not yet
\* due: the row is still a scheduled draft, now checked, with the default
\* reason, and nothing was published.
C23_Witness ==
    /\ verdict.settled
    /\ ~verdict.result.threw /\ verdict.result.is_approved
    /\ verdict.result.reason = ""
    /\ verdict.before = "draft"
    /\ posts[verdict.postId].status = "draft"
    /\ posts[verdict.postId].publish_at > now
    /\ posts[verdict.postId].moderation_checked_at = now
    /\ posts[verdict.postId].moderation_reason = "Approved"
    /\ posts[verdict.postId].pub_date = NULL
    /\ ~mail.called

\* C24: schedulePostForAutoPublish(postId, delayHours) writes publish_at of
\* post postId and nothing else: every other column of that row and every
\* other row are as before; the value it returns is the value it stored,
\* the time of the call plus delayHours; and on a post that already has a
\* deadline the stored value is the new one, whatever the old one was.
C24_ScheduleWritesOnlyPublishAt ==
    [][response'.id # 0 /\ ~response'.sent =>
         LET p == response'.id IN
         /\ posts'[p] = [posts[p] EXCEPT !.publish_at = response'.publish_at]
         /\ \A q \in DOMAIN posts \ {p} : posts'[q] = posts[q]
         /\ DOMAIN posts' = DOMAIN posts
         /\ \E d \in ScheduleDelays : response'.publish_at = now + d
         /\ posts[p].publish_at # NULL => posts'[p].publish_at = response'.publish_at]_vars

\* Post 1, scheduled at ingestion for StartTime + IngestDelayHours, has
\* been scheduled again after the clock moved: its deadline is the one the
\* last call returned, later than the first, and post 2 was never touched.
C24_Witness ==
    /\ response.id = 1 /\ ~response.sent
    /\ now > StartTime
    /\ posts[1].publish_at = response.publish_at
    /\ posts[1].publish_at > StartTime + IngestDelayHours
    /\ posts[1].moderation_checked_at = StartTime
    /\ posts[2].publish_at = NULL

\* C25: a tick selects at most ModerationLimit posts for moderation and
\* makes at most one call for each, so at most ModerationLimit calls; the
\* posts of its batch all matched the phase-1 predicate in the table the
\* batch was selected from, and every call is for a post of the batch; the
\* sweep of a tick selects, and sets to published, at most PublishLimit
\* posts, however many are eligible.
C25_BatchesBounded ==
    /\ [](\A t \in TickIds : /\ Len(ticks[t].batch) <= ModerationLimit
                             /\ ticks[t].i <= Len(ticks[t].batch)
                             /\ Len(ticks[t].outcomes) <= ticks[t].i)
    /\ [](sweep.ran => /\ Len(sweep.batch) <= ModerationLimit
                       /\ Len(sweep.outcomes) <= Len(sweep.batch)
                       /\ Cardinality(sweep.selected) <= PublishLimit)
    /\ [][/\ \A t \in TickIds :
               (ticks[t].pc = "idle" /\ ticks'[t].pc = "moderating") =>
                   Range(ticks'[t].batch) \subseteq PendingModeration(posts)
          /\ (sweep'.ran /\ ticks[sweep'.slot].pc = "idle") =>
                   Range(sweep'.batch) \subseteq PendingModeration(posts)
          /\ verdict'.settled =>
                   \E t \in TickIds : /\ ticks[t].pc = "moderating"
                                      /\ verdict'.postId = ticks[t].batch[ticks[t].i]
          /\ Cardinality({ p \in DOMAIN posts :
                             /\ posts[p].status # "published"
                             /\ posts'[p].status = "published" }) <= PublishLimit]_vars

\* A tick has moderated a full batch of ModerationLimit posts while a
\* further post waits, and its sweep took PublishLimit of more than
\* PublishLimit eligible posts.
C25_Witness ==
    /\ sweep.ran
    /\ Len(sweep.batch) = ModerationLimit
    /\ Len(sweep.outcomes) = ModerationLimit
    /\ PendingModeration(posts) # {}
    /\ Cardinality(sweep.eligible) > PublishLimit
    /\ Cardinality(sweep.selected) = PublishLimit
    /\ Cardinality({ p \in DOMAIN posts : posts[p].status = "published" }) = PublishLimit

\* C26: while the worker keeps ticking and every call settles, every
\* scheduled draft is eventually checked (or published by hand first), and
\* every checked draft whose deadline has passed is eventually published.
C26_ScheduledPostsProgress ==
    \A p \in 1..MaxPosts :
        /\ (/\ p \in DOMAIN posts
            /\ posts[p].status = "draft"
            /\ posts[p].publish_at # NULL)
             ~> (/\ p \in DOMAIN posts
                 /\ \/ posts[p].moderation_checked_at # NULL
                    \/ posts[p].status = "published")
        /\ (/\ p \in DOMAIN posts
            /\ posts[p].status = "draft"
            /\ posts[p].moderation_checked_at # NULL
            /\ posts[p].publish_at # NULL
            /\ posts[p].publish_at <= now)
             ~> (p \in DOMAIN posts /\ posts[p].status = "published")

\* C27: the publish sweep leaves publish_at and moderation_checked_at of
\* the rows it publishes as they were; a published post that carries both,
\* with the deadline passed, and is returned to draft by the unpublish route
\* matches the phase-2 predicate at once; and a tick whose sweep runs while such a post (a
\* draft with pub_date set that matches the predicate) is in the table
\* leaves it published, with the pub_date it had.
C27_UnpublishedPostIsRepublished ==
    /\ [](sweep.ran => \A s \in sweep.selected :
                          /\ posts[s.id].publish_at = s.publish_at
                          /\ posts[s.id].moderation_checked_at = s.moderation_checked_at)
    /\ [][\A p \in DOMAIN posts :
            /\ (/\ AdminUnpublish(p)
                /\ posts[p].status = "published"
                /\ posts[p].publish_at # NULL
                /\ posts[p].publish_at <= now
                /\ posts[p].moderation_checked_at # NULL)
                  => p \in PendingPublish(posts', now')
            /\ (/\ sweep'.ran
                /\ p \in PendingPublish(posts, now)
                /\ posts[p].pub_date # NULL)
                  => /\ posts'[p].status = "published"
                     /\ posts'[p].pub_date = posts[p].pub_date]_vars

\* A moderation call is issued in this step by the tick in slot t.
CallIssued(t) ==
    /\ ticks'[t].pc = "moderating"
    /\ ticks[t].pc # "moderating" \/ ticks'[t].i # ticks[t].i

\* C28: PATCH of the text changes the text (and updated_at) and leaves
\* status, moderation_checked_at, moderation_reason, publish_at and pub_date
\* alone; and the edited text is never sent to moderation: once a call for
\* a post is in flight, no call is issued for that post on a text other
\* than the one in flight, and none once the post is checked.
C28_EditedTextIsNotModerated ==
    [][/\ \A p \in DOMAIN posts :
            AdminPatchText(p) =>
                posts' = [posts EXCEPT ![p] = [@ EXCEPT !.text = posts'[p].text,
                                                        !.updated_at = posts'[p].updated_at]]
       /\ \A t \in TickIds :
            CallIssued(t) =>
                LET p == ticks'[t].batch[ticks'[t].i]
                    text == ticks'[t].texts[ticks'[t].i]
                IN /\ \A u \in TickIds \ {t} :
                        (ticks[u].pc = "moderating" /\ ticks[u].batch[ticks[u].i] = p)
                            => ticks[u].texts[ticks[u].i] = text
                   /\ posts[p].moderation_checked_at # NULL => text = posts[p].text]_vars

\* C29: a change of an owner's auto_publish_enabled writes no post; no
\* step gives a deadline to a post that is already in the table without
\* one; and whatever the flag is, a tick that starts takes the scheduled,
\* unchecked drafts (all of them up to the limit) into its moderation
\* batch, and a sweep publishes the eligible rows (all of them up to the
\* limit).
C29_FlagReadOnlyAtIngestion ==
    [][/\ users' # users => posts' = posts
       /\ \A p \in DOMAIN posts : posts[p].publish_at = NULL => posts'[p].publish_at = NULL
       /\ \A t \in TickIds :
            (TickStarts(t) /\ ~sweep'.threw) =>
                LET batch == IF ticks'[t].pc = "moderating" THEN ticks'[t].batch
                             ELSE sweep'.batch
                    waiting == { p \in DOMAIN posts : /\ posts[p].publish_at # NULL
                                                      /\ posts[p].moderation_checked_at = NULL
                                                      /\ posts[p].status = "draft" }
                IN /\ Range(batch) \subseteq waiting
                   /\ Cardinality(waiting) <= ModerationLimit => Range(batch) = waiting
       /\ (sweep'.ran /\ Cardinality(sweep'.eligible) <= PublishLimit) =>
            /\ { s.id : s \in sweep'.selected } = sweep'.eligible
            /\ \A p \in sweep'.eligible : posts'[p].status = "published"]_vars

\* The owner's flag is off, and the post scheduled while it was on has just
\* been approved and published by the worker.
C29_Witness ==
    /\ \A k \in RegisteredKeys : ~users[k].auto_publish_enabled
    /\ verdict.settled
    /\ ~verdict.result.threw /\ verdict.result.is_approved
    /\ sweep.ran
    /\ \E s \in sweep.selected : s.id = verdict.postId
    /\ posts[verdict.postId].status = "published"
    /\ posts[verdict.postId].publish_at # NULL

\* C30: a call of the invalidation hook (by a publish sweep or by a publish
\* route) leaves the cache without a feed; a request that finds the cache
\* without a feed reads the store and serves, and caches, the feed of the
\* posts published at that moment, with their current text; a request that
\* finds a feed serves that feed without reading the store and leaves the
\* cache as it is; and a cached feed is replaced by nothing but an
\* invalidation, so a feed built before an invalidation is not served
\* after it.
C30_CacheServesFeedBuiltSinceInvalidation ==
    [][/\ (sweep'.invalidated > 0 \/ feed'.invalidated) =>
             (~cache'.built /\ cache'.xml = <<>>)
       /\ (feed'.served /\ ~cache.built) =>
             /\ feed'.readStore
             /\ { it.id : it \in Range(feed'.xml) }
                  = { p \in DOMAIN posts : posts[p].status = "published" }
             /\ Len(feed'.xml)
                  = Cardinality({ p \in DOMAIN posts : posts[p].status = "published" })
             /\ \A it \in Range(feed'.xml) : it.text = posts[it.id].text
             /\ cache'.built /\ cache'.xml = feed'.xml
       /\ (feed'.served /\ cache.built) =>
             /\ ~feed'.readStore
             /\ feed'.xml = cache.xml
             /\ cache' = cache
       /\ (cache.built /\ cache' # cache) =>
             /\ sweep'.invalidated > 0 \/ feed'.invalidated
             /\ ~cache'.built]_vars

\* A request was answered from the cache without a read of the store: the
\* served feed is the cached one, built before the text of one of its posts
\* was replaced, and no invalidation has happened since.
C30_Witness ==
    /\ feed.served
    /\ ~feed.readStore
    /\ feed.status = "200"
    /\ cache.built
    /\ feed.xml = cache.xml
    /\ Len(feed.xml) = MaxFeedPosts
    /\ \E it \in Range(feed.xml) : it.text # posts[it.id].text
====
